---------------------------- MODULE Spec2Model ----------------------------
(***************************************************************************)
(* CASSON: tokenizer, precedence-climbing parser and the AST operations    *)
(* evaluate / derivative / simplify / __str__ (src/syntax_parser.py,       *)
(* src/function.py), driven as the prompt loops of src/*_prompt.py do.     *)
(*                                                                         *)
(* Text is a sequence of one-character strings; a token is such a          *)
(* sequence too.  A Python number is an exact rational n/d with a flag f   *)
(* telling float from int; values the exact arithmetic cannot hold         *)
(* (irrational, complex, beyond MaxMagnitude) are kept as opaque symbolic  *)
(* values; the float -0.0 is the zero with denominator -1.  Precedences    *)
(* are the source's multiplied by two, so that Negate's 2.5 is the         *)
(* integer 5.                                                              *)
(***************************************************************************)
EXTENDS Integers, Sequences, FiniteSets, TLC

VARIABLES
    tokens,     \* the token list handed to parse (parse inserts "*" into it)
    original,   \* the token list as tokenize produced it
    parsed,     \* what parse returned or raised
    reparsed,   \* what a second parse of the same list returned or raised
    tree,       \* the tree the AST operations are applied to
    text,       \* the result of str
    simplified, \* the result of simplify
    resimplified, \* the result of simplify on that result
    wrt,        \* the variable of differentiation
    derived,    \* tree.derivative(wrt)
    value,      \* tree.evaluate()
    pc          \* position of the prompt loop

vars == <<tokens, original, parsed, reparsed, tree, text, simplified,
          resimplified, wrt, derived, value, pc>>

(***************************************************************************)
(* Bounds of the model.                                                    *)
(***************************************************************************)
MaxTokens == 4
MaxOps == 2
MaxJuxt == 6
MaxNodes == 5
MaxMagnitude == 10000

(***************************************************************************)
(* Outcomes: a Python exception is a record with an err field.             *)
(***************************************************************************)
None == [name |-> "None"]
Raise(e, m) == [err |-> e, msg |-> m]
IsErr(r) == "err" \in DOMAIN r
IsNone(r) == (~IsErr(r)) /\ r.name = "None"

IndexError == Raise("IndexError", "list index out of range")
SyntaxError == Raise("SyntaxError", "")
ZeroDivisionError == Raise("ZeroDivisionError", "division by zero")
ValueError == Raise("ValueError", "math domain error")
AttributeError == Raise("AttributeError", "module 'math' has no attribute 'abs'")
AssertionError(m) == Raise("AssertionError", m)

(***************************************************************************)
(* Python numbers.                                                         *)
(***************************************************************************)
AbsInt(x) == IF x < 0 THEN -x ELSE x

RECURSIVE Gcd(_, _)
Gcd(a, b) == IF b = 0 THEN a ELSE Gcd(b, a % b)

\* a value the exact arithmetic does not hold, kept symbolically
Opaque(fn, args, f) == [irr |-> fn, args |-> args, f |-> f]
IsOpaque(v) == "irr" \in DOMAIN v

\* the number n/d, float when f, in lowest terms with d > 0
Norm(n, d, f) ==
    LET g == Gcd(AbsInt(n), AbsInt(d))
        s == IF d < 0 THEN -1 ELSE 1
        nn == s * (n \div g)
        dd == s * (d \div g)
    IN  IF AbsInt(nn) > MaxMagnitude \/ dd > MaxMagnitude
        THEN Opaque("big", <<[n |-> n \div g, d |-> d \div g, f |-> f]>>, f)
        ELSE [n |-> nn, d |-> dd, f |-> f]

IntNum(n) == [n |-> n, d |-> 1, f |-> FALSE]
FloatNum(n) == [n |-> n, d |-> 1, f |-> TRUE]

\* the float -0.0: the zero whose denominator is -1
NegZero == [n |-> 0, d |-> -1, f |-> TRUE]

\* isinstance(v, float)
IsFloat(v) == v.f

IsZero(v) == (~IsOpaque(v)) /\ v.n = 0
IsOne(v) == (~IsOpaque(v)) /\ v.n = 1 /\ v.d = 1

\* the sign bit of an exact value
Negative(v) == (~IsOpaque(v)) /\ (v.n < 0 \/ v = NegZero)

\* the zero of an operation: an int 0, or a float 0.0 or -0.0
Zero(f, negative) == IF f /\ negative THEN NegZero ELSE Norm(0, 1, f)

\* Python's == on two numbers: by value, 1 == 1.0 and 0.0 == -0.0
NumEq(a, b) ==
    IF IsOpaque(a) \/ IsOpaque(b) THEN a = b
    ELSE (a.n = 0 /\ b.n = 0) \/ (a.n = b.n /\ a.d = b.d)

NumAdd(a, b) ==
    IF IsOpaque(a) \/ IsOpaque(b) THEN Opaque("add", <<a, b>>, a.f \/ b.f)
    ELSE IF a.n = 0 /\ b.n = 0
    THEN Zero(a.f \/ b.f, Negative(a) /\ Negative(b))
    ELSE Norm(a.n * b.d + b.n * a.d, a.d * b.d, a.f \/ b.f)

NumSub(a, b) ==
    IF IsOpaque(a) /\ a = b THEN Norm(0, 1, a.f)
    ELSE IF IsOpaque(a) \/ IsOpaque(b) THEN Opaque("sub", <<a, b>>, a.f \/ b.f)
    ELSE IF a.n = 0 /\ b.n = 0
    THEN Zero(a.f \/ b.f, Negative(a) /\ ~Negative(b))
    ELSE Norm(a.n * b.d - b.n * a.d, a.d * b.d, a.f \/ b.f)

NumMul(a, b) ==
    IF IsZero(a) \/ IsZero(b) THEN Zero(a.f \/ b.f, Negative(a) # Negative(b))
    ELSE IF IsOpaque(a) \/ IsOpaque(b) THEN Opaque("mul", <<a, b>>, a.f \/ b.f)
    ELSE Norm(a.n * b.n, a.d * b.d, a.f \/ b.f)

\* true division: always a float, ZeroDivisionError on a zero divisor
NumDiv(a, b) ==
    IF IsZero(b) THEN ZeroDivisionError
    ELSE IF IsZero(a) THEN Zero(TRUE, Negative(a) # Negative(b))
    ELSE IF IsOpaque(a) /\ a = b THEN FloatNum(1)
    ELSE IF IsOpaque(a) \/ IsOpaque(b) THEN Opaque("div", <<a, b>>, TRUE)
    ELSE Norm(a.n * b.d, a.d * b.n, TRUE)

\* acc * a^k for a natural k, by repeated multiplication, given up once the
\* product is beyond MaxMagnitude
RECURSIVE NumPowNat(_, _, _)
NumPowNat(acc, a, k) ==
    IF k = 0 \/ IsOpaque(acc) THEN acc
    ELSE IF IsZero(a) THEN NumMul(acc, IF k % 2 = 1 THEN a ELSE Zero(a.f, FALSE))
    ELSE IF IsOne(a) THEN NumMul(acc, a)
    ELSE IF a.d = 1 /\ a.n = -1 THEN (IF k % 2 = 0 THEN acc ELSE NumMul(acc, a))
    ELSE NumPowNat(NumMul(acc, a), a, k - 1)

\* pow(a, b)
NumPow(a, b) ==
    IF IsZero(b) \/ IsOne(a) THEN Norm(1, 1, a.f \/ b.f)
    ELSE IF IsOne(b) THEN [a EXCEPT !.f = a.f \/ b.f]
    ELSE IF IsOpaque(a) \/ IsOpaque(b) THEN Opaque("pow", <<a, b>>, a.f \/ b.f)
    ELSE IF b.d = 1 /\ b.n >= 0
    THEN LET r == NumPowNat(Norm(1, 1, a.f), a, b.n)
         IN  IF IsOpaque(r) THEN Opaque("pow", <<a, b>>, a.f \/ b.f)
             ELSE [r EXCEPT !.f = a.f \/ b.f]
    ELSE IF a.n = 0 THEN (IF b.n < 0 THEN ZeroDivisionError ELSE FloatNum(0))
    ELSE IF b.d = 1
    THEN LET r == NumPowNat(FloatNum(1), Norm(a.d, a.n, TRUE), -b.n)
         IN  IF IsOpaque(r) THEN Opaque("pow", <<a, b>>, TRUE) ELSE r
    \* a negative base to a fractional power is a complex, not a float
    ELSE Opaque("pow", <<a, b>>, a.n > 0)

\* -1 * a
NumNeg(a) == NumMul(IntNum(-1), a)

(***************************************************************************)
(* AST nodes (function.py).  A node is a record: a Number holds a value, a *)
(* Variable its name, every other kind its children.                       *)
(***************************************************************************)
Number(v) == [name |-> "Number", value |-> v]
Variable(s) == [name |-> "Variable", symbol |-> s]

binary_operators == {"Add", "Subtract", "Multiply", "Divide", "Power"}
prefix_operators == {"Negate"}
unary_functions == {"Sine", "Cosine", "Ln", "Secant", "Tangent", "Cosecant",
                    "Cotangent", "Sqrt", "Arcsin", "Sign", "Abs"}

IsLeaf(t) == t.name \in {"Number", "Variable"}
IsNumber(t) == t.name = "Number"
Children(t) == IF IsLeaf(t) THEN <<>> ELSE t.children

\* isinstance(t, Operator)
IsOperator(t) == t.name \in binary_operators \cup prefix_operators

\* the class attribute symbol
Symbol(c) ==
    CASE c = "Add" -> <<"+">>
      [] c = "Subtract" -> <<"-">>
      [] c = "Multiply" -> <<"*">>
      [] c = "Divide" -> <<"/">>
      [] c = "Power" -> <<"^">>
      [] c = "Negate" -> <<"-">>
      [] c = "Ln" -> <<"l", "n">>
      [] c = "Sine" -> <<"s", "i", "n">>
      [] c = "Cosine" -> <<"c", "o", "s">>
      [] c = "Tangent" -> <<"t", "a", "n">>
      [] c = "Secant" -> <<"s", "e", "c">>
      [] c = "Cotangent" -> <<"c", "o", "t">>
      [] c = "Cosecant" -> <<"c", "s", "c">>
      [] c = "Sqrt" -> <<"s", "q", "r", "t">>
      [] c = "Abs" -> <<"a", "b", "s">>
      [] c = "Sign" -> <<"s", "i", "g", "n">>
      [] c = "Arcsin" -> <<"a", "r", "c", "s", "i", "n">>

\* the class attribute precedence, doubled (Operator itself: 0)
precedence(c) ==
    CASE c \in {"Add", "Subtract"} -> 2
      [] c \in {"Multiply", "Divide"} -> 4
      [] c = "Negate" -> 5
      [] c = "Power" -> 6
      [] OTHER -> 0

is_left_associative(c) == c # "Power"
is_right_associative(c) == c \in {"Add", "Multiply", "Power"}

str_spacing(c) == IF c \in {"Add", "Subtract"} THEN <<" ">> ELSE <<>>

min_args(c) == IF c \in binary_operators THEN 2 ELSE 1
max_args(c) == IF c \in binary_operators THEN 2 ELSE 1

\* Function.__init__: the arity assertion, then Node.__init__
New(c, children) ==
    IF Len(children) >= min_args(c) /\ Len(children) <= max_args(c)
    THEN [name |-> c, children |-> children]
    ELSE AssertionError("expected between min_args and max_args arguments")

NUMBER_0 == Number(IntNum(0))
NUMBER_1 == Number(IntNum(1))
NUMBER_2 == Number(IntNum(2))
E == Variable(<<"E">>)

\* Node.__eq__: the symbols are equal and the children are equal
RECURSIVE NodeEq(_, _)
NodeEq(a, b) ==
    /\ IF IsNumber(a) /\ IsNumber(b) THEN NumEq(a.value, b.value)
       ELSE IF IsNumber(a) \/ IsNumber(b) THEN FALSE
       ELSE IF a.name = "Variable" /\ b.name = "Variable" THEN a.symbol = b.symbol
       ELSE IF a.name = "Variable"
            THEN a.symbol = Symbol(b.name)
       ELSE IF b.name = "Variable"
            THEN Symbol(a.name) = b.symbol
       ELSE Symbol(a.name) = Symbol(b.name)
    /\ Len(Children(a)) = Len(Children(b))
    /\ \A i \in 1..Len(Children(a)) : NodeEq(Children(a)[i], Children(b)[i])

\* the first exception among a sequence of outcomes, or none
FirstErr(rs) ==
    IF \E i \in 1..Len(rs) : IsErr(rs[i])
    THEN rs[CHOOSE i \in 1..Len(rs) : IsErr(rs[i]) /\ \A j \in 1..(i-1) : ~IsErr(rs[j])]
    ELSE None

(***************************************************************************)
(* evaluate (function.py), with the default bindings={} of the prompts.    *)
(***************************************************************************)
default_bindings == {<<"P", "i">>, <<"E">>}

\* a math-module function of one exact argument
Math(fn, v) ==
    IF IsOpaque(v)
    THEN IF fn = "log" /\ v.irr = "e" THEN FloatNum(1) ELSE Opaque(fn, <<v>>, TRUE)
    ELSE CASE fn = "log" ->
                IF v.n <= 0 THEN ValueError
                ELSE IF v.n = 1 /\ v.d = 1 THEN FloatNum(0)
                ELSE Opaque(fn, <<v>>, TRUE)
           [] fn \in {"sin", "tan", "asin"} ->
                IF v.n = 0 THEN Zero(TRUE, Negative(v))
                ELSE IF fn = "asin" /\ AbsInt(v.n) > v.d THEN ValueError
                ELSE Opaque(fn, <<v>>, TRUE)
           [] fn = "cos" ->
                IF v.n = 0 THEN FloatNum(1) ELSE Opaque(fn, <<v>>, TRUE)
           [] fn = "sqrt" ->
                IF v.n < 0 THEN ValueError
                ELSE IF v.n = 0 THEN Zero(TRUE, Negative(v))
                ELSE IF (\E r \in 0..v.n : r * r = v.n) /\ (\E r \in 1..v.d : r * r = v.d)
                THEN Norm(CHOOSE r \in 0..v.n : r * r = v.n,
                          CHOOSE r \in 1..v.d : r * r = v.d, TRUE)
                ELSE Opaque(fn, <<v>>, TRUE)

RECURSIVE evaluate(_, _)
evaluate(t, bindings) ==
    IF t.name = "Number" THEN t.value
    ELSE IF t.name = "Variable"
    THEN IF t.symbol \in default_bindings
         THEN Opaque(IF t.symbol = <<"E">> THEN "e" ELSE "pi", <<>>, TRUE)
         ELSE IF t.symbol \in DOMAIN bindings THEN bindings[t.symbol]
         ELSE AssertionError("Cannot evaluate unbound variable")
    ELSE IF t.name = "Abs" THEN AttributeError
    ELSE
    LET x == evaluate(t.children[1], bindings)
    IN  IF IsErr(x) THEN x
        ELSE IF t.name \in binary_operators
        THEN LET y == evaluate(t.children[2], bindings)
             IN  IF IsErr(y) THEN y
                 ELSE CASE t.name = "Add" -> NumAdd(x, y)
                        [] t.name = "Subtract" -> NumSub(x, y)
                        [] t.name = "Multiply" -> NumMul(x, y)
                        [] t.name = "Divide" -> NumDiv(x, y)
                        [] t.name = "Power" -> NumPow(x, y)
        ELSE CASE t.name = "Negate" -> NumNeg(x)
               [] t.name = "Ln" -> Math("log", x)
               [] t.name = "Sine" -> Math("sin", x)
               [] t.name = "Cosine" -> Math("cos", x)
               [] t.name = "Tangent" -> Math("tan", x)
               [] t.name = "Sqrt" -> Math("sqrt", x)
               [] t.name = "Arcsin" -> Math("asin", x)
               [] t.name = "Secant" ->
                    LET c == Math("cos", x)
                    IN  IF IsErr(c) THEN c ELSE NumDiv(IntNum(1), c)
               [] t.name = "Cotangent" ->
                    LET c == Math("tan", x)
                    IN  IF IsErr(c) THEN c ELSE NumDiv(IntNum(1), c)
               [] t.name = "Cosecant" ->
                    LET c == Math("sin", x)
                    IN  IF IsErr(c) THEN c ELSE NumDiv(IntNum(1), c)
               [] t.name = "Sign" ->
                    IF IsOpaque(x) THEN Opaque("sign", <<x>>, FALSE)
                    ELSE IF x.n > 0 THEN IntNum(1)
                    ELSE IF x.n < 0 THEN IntNum(-1)
                    ELSE IntNum(0)

(***************************************************************************)
(* simplify (function.py).                                                 *)
(***************************************************************************)
\* a constructor call whose arguments may have raised
Mk(c, cs) == IF IsErr(FirstErr(cs)) THEN FirstErr(cs) ELSE New(c, cs)

RECURSIVE simplify(_)

\* Node.simplify: the same kind over the simplified children
Node_simplify(t) ==
    Mk(t.name, IF Len(t.children) = 1
               THEN <<simplify(t.children[1])>>
               ELSE <<simplify(t.children[1]), simplify(t.children[2])>>)

\* Leaf.simplify
Leaf_simplify(t) == t

\* the test that guards constant folding in Function.simplify
AllFloatNumbers(cs) ==
    \A i \in 1..Len(cs) : IsNumber(cs[i]) /\ IsFloat(cs[i].value)

\* Number(v) of an evaluation that may have raised
NumberOf_evaluate(v) == IF IsErr(v) THEN v ELSE Number(v)

\* Function.simplify after its super().simplify() returned self: fold a node
\* whose children are all float Numbers
Function_fold(self) ==
    IF IsErr(self) THEN self
    ELSE IF AllFloatNumbers(self.children)
    THEN NumberOf_evaluate(evaluate(self, <<>>))
    ELSE self

\* Function.simplify
Function_simplify(t) == Function_fold(Node_simplify(t))

\* the rules of each class below act on self, what super().simplify() returned
Add_simplify(self) ==
    IF IsErr(self) \/ IsNumber(self) THEN self
    ELSE IF NodeEq(self.children[1], NUMBER_0) THEN self.children[2]
    ELSE IF NodeEq(self.children[2], NUMBER_0) THEN self.children[1]
    ELSE self

\* Multiply.simplify without its rules for a factor 1
Multiply_simplify_ZeroOnly(self) ==
    IF IsErr(self) \/ IsNumber(self) THEN self
    ELSE IF NodeEq(self.children[1], NUMBER_0)
            \/ NodeEq(self.children[2], NUMBER_0) THEN NUMBER_0
    ELSE self

Multiply_simplify(self) ==
    IF IsErr(self) \/ IsNumber(self) THEN self
    ELSE IF NodeEq(self.children[1], NUMBER_0)
            \/ NodeEq(self.children[2], NUMBER_0) THEN NUMBER_0
    ELSE IF NodeEq(self.children[1], NUMBER_1) THEN self.children[2]
    ELSE IF NodeEq(self.children[2], NUMBER_1) THEN self.children[1]
    ELSE self

Subtract_simplify(self) ==
    IF IsErr(self) \/ IsNumber(self) THEN self
    ELSE IF NodeEq(self.children[1], NUMBER_0)
    THEN New("Negate", <<self.children[2]>>)
    ELSE IF NodeEq(self.children[2], NUMBER_0) THEN self.children[1]
    ELSE self

Divide_simplify(self) ==
    IF IsErr(self) \/ IsNumber(self) THEN self
    ELSE IF NodeEq(self.children[1], NUMBER_0) THEN NUMBER_0
    ELSE IF NodeEq(self.children[2], NUMBER_1) THEN self.children[1]
    ELSE IF NodeEq(self.children[1], self.children[2]) THEN NUMBER_1
    ELSE self

Power_simplify(self) ==
    IF IsErr(self) \/ IsNumber(self) THEN self
    ELSE IF NodeEq(self.children[1], NUMBER_0)
            /\ ~NodeEq(self.children[2], NUMBER_0) THEN NUMBER_0
    ELSE IF NodeEq(self.children[2], NUMBER_0)
            /\ ~NodeEq(self.children[1], NUMBER_0) THEN NUMBER_1
    ELSE IF NodeEq(self.children[1], NUMBER_1) THEN NUMBER_1
    ELSE IF NodeEq(self.children[2], NUMBER_1) THEN self.children[1]
    ELSE self

Ln_simplify(self) ==
    IF IsErr(self) \/ IsNumber(self) THEN self
    ELSE IF NodeEq(self.children[1], NUMBER_1) THEN NUMBER_0
    ELSE IF NodeEq(self.children[1], E) THEN NUMBER_1
    ELSE self

Negate_simplify(self) ==
    IF IsErr(self) \/ IsNumber(self) THEN self
    ELSE IF self.children[1].name = "Negate" THEN self.children[1].children[1]
    ELSE IF NodeEq(self.children[1], NUMBER_0) THEN self.children[1]
    ELSE self

\* the simplify of class c, entered with self = super().simplify()
Class_simplify(c, self) ==
    CASE c = "Add" -> Add_simplify(self)
      [] c = "Multiply" -> Multiply_simplify(self)
      [] c = "Subtract" -> Subtract_simplify(self)
      [] c = "Divide" -> Divide_simplify(self)
      [] c = "Power" -> Power_simplify(self)
      [] c = "Ln" -> Ln_simplify(self)
      [] c = "Negate" -> Negate_simplify(self)
      [] OTHER -> self

\* t.simplify(), dispatched on the class of t
simplify(t) ==
    IF IsLeaf(t) THEN Leaf_simplify(t)
    ELSE Class_simplify(t.name, Function_simplify(t))

(***************************************************************************)
(* derivative (function.py).                                               *)
(***************************************************************************)
\* r.simplify() when r was built
Simp(r) == IF IsErr(r) THEN r ELSE simplify(r)

RECURSIVE derivative(_, _)

Variable_derivative(t, symbol) ==
    IF t.symbol = symbol THEN NUMBER_1 ELSE NUMBER_0

Number_derivative(t, symbol) == NUMBER_0

Add_derivative(t, symbol) ==
    LET x == t.children[1]
        y == t.children[2]
    IN  Simp(Mk("Add", <<derivative(x, symbol), derivative(y, symbol)>>))

Multiply_derivative(t, symbol) ==
    LET x == t.children[1]
        y == t.children[2]
    IN  Simp(Mk("Add", <<Mk("Multiply", <<derivative(x, symbol), y>>),
                         Mk("Multiply", <<derivative(y, symbol), x>>)>>))

Subtract_derivative(t, symbol) ==
    LET x == t.children[1]
        y == t.children[2]
    IN  Simp(Mk("Subtract", <<Mk("Multiply", <<derivative(x, symbol), y>>),
                              Mk("Multiply", <<derivative(y, symbol), x>>)>>))

Divide_derivative(t, symbol) ==
    LET x == t.children[1]
        y == t.children[2]
    IN  Simp(Mk("Divide",
          <<Mk("Subtract", <<Mk("Multiply", <<derivative(x, symbol), y>>),
                             Mk("Multiply", <<derivative(y, symbol), x>>)>>),
            Mk("Power", <<y, NUMBER_2>>)>>))

Power_derivative(t, symbol) ==
    LET z == t.children[1]
        y == t.children[2]
    IN  Simp(Mk("Multiply",
          <<t, Mk("Add", <<Mk("Multiply", <<derivative(y, symbol), Mk("Ln", <<z>>)>>),
                           Mk("Divide", <<Mk("Multiply", <<derivative(z, symbol), y>>),
                                          z>>)>>)>>))

Ln_derivative(t, symbol) ==
    LET x == t.children[1]
    IN  Simp(Mk("Divide", <<derivative(x, symbol), x>>))

Sine_derivative(t, symbol) ==
    Simp(Mk("Multiply", <<Mk("Cosine", t.children),
                          derivative(t.children[1], symbol)>>))

Cosine_derivative(t, symbol) ==
    Simp(Mk("Multiply", <<Mk("Negate", <<Mk("Sine", t.children)>>),
                          derivative(t.children[1], symbol)>>))

Tangent_derivative(t, symbol) ==
    LET x == t.children[1]
    IN  Simp(Mk("Multiply", <<Mk("Power", <<Mk("Secant", <<x>>), NUMBER_2>>),
                              derivative(x, symbol)>>))

Secant_derivative(t, symbol) ==
    LET x == t.children[1]
    IN  Simp(Mk("Multiply", <<Mk("Multiply", <<Mk("Secant", <<x>>),
                                               Mk("Tangent", <<x>>)>>),
                              derivative(x, symbol)>>))

Cotangent_derivative(t, symbol) ==
    LET x == t.children[1]
    IN  Simp(Mk("Multiply",
          <<Mk("Negate", <<Mk("Power", <<Mk("Cosecant", <<x>>), NUMBER_2>>)>>),
            derivative(x, symbol)>>))

Cosecant_derivative(t, symbol) ==
    LET x == t.children[1]
    IN  Simp(Mk("Multiply",
          <<Mk("Multiply", <<Mk("Negate", <<Mk("Cosecant", <<x>>)>>),
                             Mk("Cotangent", <<x>>)>>),
            derivative(x, symbol)>>))

Sqrt_derivative(t, symbol) ==
    LET x == t.children[1]
    IN  Simp(Mk("Multiply",
          <<Mk("Divide", <<NUMBER_1, Mk("Multiply", <<NUMBER_2, Mk("Sqrt", <<x>>)>>)>>),
            derivative(x, symbol)>>))

Abs_derivative(t, symbol) ==
    LET x == t.children[1]
    IN  Simp(Mk("Multiply", <<Mk("Sign", <<x>>), derivative(x, symbol)>>))

Sign_derivative(t, symbol) == NUMBER_0

Arcsin_derivative(t, symbol) ==
    LET x == t.children[1]
    IN  Simp(Mk("Multiply",
          <<Mk("Divide", <<NUMBER_1,
               Mk("Sqrt", <<Mk("Subtract", <<NUMBER_1,
                                             Mk("Power", <<x, NUMBER_2>>)>>)>>)>>),
            derivative(x, symbol)>>))

Negate_derivative(t, symbol) ==
    Simp(Mk("Negate", <<derivative(t.children[1], symbol)>>))

\* t.derivative(symbol), dispatched on the class of t
derivative(t, symbol) ==
    CASE t.name = "Number" -> Number_derivative(t, symbol)
      [] t.name = "Variable" -> Variable_derivative(t, symbol)
      [] t.name = "Add" -> Add_derivative(t, symbol)
      [] t.name = "Multiply" -> Multiply_derivative(t, symbol)
      [] t.name = "Subtract" -> Subtract_derivative(t, symbol)
      [] t.name = "Divide" -> Divide_derivative(t, symbol)
      [] t.name = "Power" -> Power_derivative(t, symbol)
      [] t.name = "Ln" -> Ln_derivative(t, symbol)
      [] t.name = "Sine" -> Sine_derivative(t, symbol)
      [] t.name = "Cosine" -> Cosine_derivative(t, symbol)
      [] t.name = "Tangent" -> Tangent_derivative(t, symbol)
      [] t.name = "Secant" -> Secant_derivative(t, symbol)
      [] t.name = "Cotangent" -> Cotangent_derivative(t, symbol)
      [] t.name = "Cosecant" -> Cosecant_derivative(t, symbol)
      [] t.name = "Sqrt" -> Sqrt_derivative(t, symbol)
      [] t.name = "Abs" -> Abs_derivative(t, symbol)
      [] t.name = "Sign" -> Sign_derivative(t, symbol)
      [] t.name = "Arcsin" -> Arcsin_derivative(t, symbol)
      [] t.name = "Negate" -> Negate_derivative(t, symbol)

(***************************************************************************)
(* __str__ (function.py): text as a sequence of characters.                *)
(***************************************************************************)
Digits == <<"0", "1", "2", "3", "4", "5", "6", "7", "8", "9">>
DigitSet == {Digits[i] : i \in 1..Len(Digits)}
DigitValue(c) == (CHOOSE i \in 1..Len(Digits) : Digits[i] = c) - 1

\* str of a non-negative int
RECURSIVE NatStr(_)
NatStr(n) == IF n < 10 THEN <<Digits[n + 1]>>
             ELSE NatStr(n \div 10) \o <<Digits[(n % 10) + 1]>>

\* the digits after the point of r/d, at most k of them
RECURSIVE FracStr(_, _, _)
FracStr(r, d, k) ==
    IF r = 0 \/ k = 0 THEN <<>>
    ELSE <<Digits[((10 * r) \div d) + 1]>> \o FracStr((10 * r) % d, d, k - 1)

\* str of a number: an int in decimal, a float with its point
NumStr(v) ==
    IF IsOpaque(v) THEN <<"?">>
    ELSE LET sign == IF Negative(v) THEN <<"-">> ELSE <<>>
             a == AbsInt(v.n)
             d == AbsInt(v.d)
         IN  IF ~v.f THEN sign \o NatStr(a)
             ELSE sign \o NatStr(a \div d) \o <<".">> \o
                  (IF a % d = 0 THEN <<"0">> ELSE FracStr(a % d, d, 17))

RECURSIVE Str(_)

\* Leaf.__str__
Leaf_str(t) == IF IsNumber(t) THEN NumStr(t.value) ELSE t.symbol

\* Node.__str__: symbol(child, ...)
Node_str(t) == Symbol(t.name) \o <<"(">> \o Str(t.children[1]) \o <<")">>

\* PrefixOperator.__str__
PrefixOperator_str(t) ==
    LET child == t.children[1]
    IN  IF IsOperator(child) /\ precedence(t.name) > precedence(child.name)
        THEN Symbol(t.name) \o <<"(">> \o Str(child) \o <<")">>
        ELSE Symbol(t.name) \o Str(child)

\* whether BinaryOperator.__str__ wraps its left child
WrapLeft(t) ==
    LET left == t.children[1]
    IN  IsOperator(left) /\
        (precedence(left.name) < precedence(t.name)
         \/ (precedence(left.name) = precedence(t.name)
             /\ ~is_left_associative(t.name)))

\* whether BinaryOperator.__str__ wraps its right child
WrapRight(t) ==
    LET right == t.children[2]
    IN  IsOperator(right) /\
        (precedence(right.name) < precedence(t.name)
         \/ (precedence(right.name) = precedence(t.name)
             /\ ~is_right_associative(t.name)))

\* BinaryOperator.__str__
BinaryOperator_str(t) ==
    LET left_str == IF WrapLeft(t)
                    THEN <<"(">> \o Str(t.children[1]) \o <<")">>
                    ELSE Str(t.children[1])
        right_str == IF WrapRight(t)
                     THEN <<"(">> \o Str(t.children[2]) \o <<")">>
                     ELSE Str(t.children[2])
    IN  left_str \o str_spacing(t.name) \o Symbol(t.name)
                 \o str_spacing(t.name) \o right_str

\* str(t), dispatched on the class of t
Str(t) ==
    CASE IsLeaf(t) -> Leaf_str(t)
      [] t.name \in binary_operators -> BinaryOperator_str(t)
      [] t.name \in prefix_operators -> PrefixOperator_str(t)
      [] OTHER -> Node_str(t)

(***************************************************************************)
(* tokenize (syntax_parser.py): re.findall over the four token patterns.   *)
(***************************************************************************)
OperatorChars == {"(", ")", "+", "-", "/", "*", "^"}
Letters == {"a", "b", "c", "d", "e", "f", "g", "h", "i", "j", "k", "l", "m",
            "n", "o", "p", "q", "r", "s", "t", "u", "v", "w", "x", "y", "z",
            "A", "B", "C", "D", "E", "F", "G", "H", "I", "J", "K", "L", "M",
            "N", "O", "P", "Q", "R", "S", "T", "U", "V", "W", "X", "Y", "Z"}

\* the first position from i on whose character is not in S
RECURSIVE RunEnd(_, _, _)
RunEnd(s, i, S) ==
    IF i <= Len(s) /\ s[i] \in S THEN RunEnd(s, i + 1, S) ELSE i

\* the position after the match of NUMBER_REGEXP at i, or i when none
NumberEnd(s, i) ==
    IF i <= Len(s) /\ s[i] \in DigitSet
    THEN LET j == RunEnd(s, i, DigitSet)
         IN  IF j <= Len(s) /\ s[j] = "." THEN RunEnd(s, j + 1, DigitSet) ELSE j
    ELSE IF i + 1 <= Len(s) /\ s[i] = "." /\ s[i + 1] \in DigitSet
    THEN RunEnd(s, i + 1, DigitSet)
    ELSE i

RECURSIVE Scan(_, _)
Scan(s, i) ==
    IF i > Len(s) THEN <<>>
    ELSE IF s[i] \in OperatorChars THEN <<<<s[i]>>>> \o Scan(s, i + 1)
    ELSE IF NumberEnd(s, i) > i
    THEN <<SubSeq(s, i, NumberEnd(s, i) - 1)>> \o Scan(s, NumberEnd(s, i))
    ELSE IF s[i] \in Letters
    THEN <<SubSeq(s, i, RunEnd(s, i, Letters) - 1)>> \o Scan(s, RunEnd(s, i, Letters))
    ELSE Scan(s, i + 1)

tokenize(string) == Scan(string, 1)

(***************************************************************************)
(* parse_primitive (syntax_parser.py).                                     *)
(***************************************************************************)
Class(c) == [class |-> c]
IsClass(p) == "class" \in DOMAIN p

\* the dictionaries of function.py: a token's class, if it has one
binary_operators_dict(token) ==
    IF \E c \in binary_operators : Symbol(c) = token
    THEN Class(CHOOSE c \in binary_operators : Symbol(c) = token) ELSE None
unary_functions_dict(token) ==
    IF \E c \in unary_functions : Symbol(c) = token
    THEN Class(CHOOSE c \in unary_functions : Symbol(c) = token) ELSE None
prefix_operators_dict(token) ==
    IF \E c \in prefix_operators : Symbol(c) = token
    THEN Class(CHOOSE c \in prefix_operators : Symbol(c) = token) ELSE None

\* int(digits)
RECURSIVE DigitsValue(_)
DigitsValue(ds) ==
    IF ds = <<>> THEN 0
    ELSE 10 * DigitsValue(SubSeq(ds, 1, Len(ds) - 1)) + DigitValue(ds[Len(ds)])

RECURSIVE PowerOfTen(_)
PowerOfTen(k) == IF k = 0 THEN 1 ELSE 10 * PowerOfTen(k - 1)

\* Number(int(token)), or Number(float(token)) when int raises
NumberOf(token) ==
    IF \A i \in 1..Len(token) : token[i] \in DigitSet
    THEN Number(IntNum(DigitsValue(token)))
    ELSE LET p == CHOOSE i \in 1..Len(token) : token[i] = "."
             whole == SubSeq(token, 1, p - 1)
             frac == SubSeq(token, p + 1, Len(token))
         IN  Number(Norm(DigitsValue(whole) * PowerOfTen(Len(frac)) + DigitsValue(frac),
                         PowerOfTen(Len(frac)), TRUE))

parse_primitive(token, has_previous) ==
    IF NumberEnd(token, 1) > 1 THEN NumberOf(token)
    ELSE IF (~has_previous) /\ IsClass(prefix_operators_dict(token))
    THEN prefix_operators_dict(token)
    ELSE IF IsClass(binary_operators_dict(token))
    THEN binary_operators_dict(token)
    ELSE IF has_previous /\ IsClass(prefix_operators_dict(token))
    THEN prefix_operators_dict(token)
    ELSE IF token[1] \in Letters
    THEN IF IsClass(unary_functions_dict(token))
         THEN unary_functions_dict(token)
         ELSE Variable(token)
    ELSE SyntaxError

(***************************************************************************)
(* parse_partial and parse (syntax_parser.py).  Indices are the source's,  *)
(* from 0.  A call returns the node, the index after it and the token list *)
(* as its insertions left it; an exception carries the token list too.     *)
(***************************************************************************)
Ret(node, index, toks) == [node |-> node, index |-> index, tokens |-> toks]
RaiseAt(e, toks) == [err |-> e.err, msg |-> e.msg, tokens |-> toks]

\* an insert that leaves the list as it was
Insert_Nothing(toks, index) == toks

\* tokens.insert(index, "*")
Insert(toks, index) ==
    SubSeq(toks, 1, index) \o <<<<"*">>>> \o SubSeq(toks, index + 1, Len(toks))

\* new_index < len(tokens) and tokens[new_index] == c
TokenIs(toks, index, c) == index < Len(toks) /\ toks[index + 1] = <<c>>

\* the continuation test by precedence alone, associativity ignored
Climbs_ByPrecedenceOnly(next_operator, limiting_operator) ==
    precedence(next_operator) > precedence(limiting_operator)

\* the test that continues the parse to the right of the current node
Climbs(next_operator, limiting_operator) ==
    \/ precedence(next_operator) > precedence(limiting_operator)
    \/ /\ is_right_associative(next_operator)
       /\ ~is_left_associative(next_operator)
       /\ precedence(next_operator) = precedence(limiting_operator)

\* whether the token after the current node is no binary operator, so that
\* a "*" is inserted before it
IsImplicit(next_operator) ==
    ~(IsClass(next_operator) /\ next_operator.class \in binary_operators)

RECURSIVE parse_partial(_, _, _, _)

\* lines 26-28 and 41-43: after the inner parse_partial returned r, the
\* closing parenthesis is required and skipped
Closing(r, message) ==
    IF IsErr(r) THEN r
    ELSE IF ~TokenIs(r.tokens, r.index, ")")
    THEN RaiseAt(AssertionError(message), r.tokens)
    ELSE Ret(r.node, r.index + 1, r.tokens)

\* lines 30-32: the primitive p of the token at index
Primitive(p, toks, index) ==
    IF IsErr(p) THEN RaiseAt(p, toks) ELSE Ret(p, index + 1, toks)

\* lines 24-32: a parenthesised subexpression or a primitive
ParseFirst(toks, index, previous) ==
    IF index >= Len(toks) THEN RaiseAt(IndexError, toks)
    ELSE IF toks[index + 1] = <<"(">>
    THEN Closing(parse_partial(toks, index + 1, "Operator", None),
                 "Mismatched parentheses")
    ELSE Primitive(parse_primitive(toks[index + 1], ~IsNone(previous)),
                   toks, index)

\* parsed = parsed(args) over the arguments a call a parsed
Apply(c, before, a) ==
    IF IsErr(a) THEN a ELSE Ret(New(c, before \o <<a.node>>), a.index, a.tokens)

\* lines 35-53: a Function class becomes a node over its parsed arguments
ParseCall(first, previous, c) ==
    IF c \in unary_functions
    THEN IF ~TokenIs(first.tokens, first.index, "(")
         THEN RaiseAt(AssertionError("Unary function calls require parentheses"),
                      first.tokens)
         ELSE Apply(c, <<>>,
                    Closing(parse_partial(first.tokens, first.index + 1,
                                          "Operator", None),
                            "Mismatched parentheses in unary function call"))
    ELSE IF c \in prefix_operators
    THEN Apply(c, <<>>, parse_partial(first.tokens, first.index, c, None))
    ELSE IF IsNone(previous)
         THEN RaiseAt(AssertionError("Binary operator missing first argument"),
                      first.tokens)
         ELSE Apply(c, <<previous>>,
                    parse_partial(first.tokens, first.index, c, previous))

\* lines 62-72: peek is the primitive of the next token, None for "("
Continue(cur, peek, limiting_operator) ==
    IF IsErr(peek) THEN RaiseAt(peek, cur.tokens)
    ELSE IF IsImplicit(peek)
    THEN IF Climbs("Multiply", limiting_operator)
         THEN parse_partial(Insert(cur.tokens, cur.index), cur.index,
                            limiting_operator, cur.node)
         ELSE Ret(cur.node, cur.index, Insert(cur.tokens, cur.index))
    ELSE IF Climbs(peek.class, limiting_operator)
         THEN parse_partial(cur.tokens, cur.index, limiting_operator, cur.node)
         ELSE cur

\* lines 57-72: look at the next token and return or continue to the right
ParseRest(cur, limiting_operator) ==
    IF IsErr(cur) THEN cur
    ELSE IF cur.index < Len(cur.tokens) /\ cur.tokens[cur.index + 1] # <<")">>
    THEN Continue(cur,
                  IF cur.tokens[cur.index + 1] # <<"(">>
                  THEN parse_primitive(cur.tokens[cur.index + 1], TRUE)
                  ELSE None,
                  limiting_operator)
    ELSE cur

\* lines 33-55: the node of first, called when it is a Function class
ParseNode(first, previous) ==
    IF IsErr(first) THEN first
    ELSE IF IsClass(first.node)
    THEN ParseCall(first, previous, first.node.class)
    ELSE first

parse_partial(toks, index, limiting_operator, previous) ==
    ParseRest(ParseNode(ParseFirst(toks, index, previous), previous),
              limiting_operator)

\* lines 13-16: the loop of parse, r holding previous, index and the list
RECURSIVE ParseLoop(_)
ParseLoop(r) ==
    IF IsErr(r) THEN r
    ELSE IF r.index < Len(r.tokens)
    THEN ParseLoop(parse_partial(r.tokens, r.index, "Operator", r.node))
    ELSE r

\* parse(tokens): the outcome, and the caller's list as the call left it
Outcome(r) ==
    IF IsErr(r) THEN [result |-> Raise(r.err, r.msg), tokens |-> r.tokens]
    ELSE [result |-> r.node, tokens |-> r.tokens]

parse(toks) == Outcome(ParseLoop(Ret(None, 0, toks)))

(***************************************************************************)
(* The inputs the model draws.                                             *)
(***************************************************************************)
\* tokens that tokenize produces: numbers, names, and each operator character
Alphabet == {<<"2">>, <<"3", ".", "5">>, <<"x">>, <<"s", "i", "n">>, <<"(">>, <<")">>,
             <<"+">>, <<"-">>, <<"*">>, <<"/">>, <<"^">>}

\* the tokens around which "*" may be inserted
JuxtAlphabet == {<<"2">>, <<"x">>, <<"s", "i", "n">>, <<"(">>, <<")">>, <<"-">>}

\* operand (op operand)*, with k operators
Operands == {<<"2">>, <<"3">>, <<"4">>, <<"x">>}
OperatorTokens == {Symbol(c) : c \in binary_operators}
RECURSIVE ChainsOfOps(_)
ChainsOfOps(k) ==
    IF k = 0 THEN {<<a>> : a \in Operands}
    ELSE {q \o <<o, a>> : q \in ChainsOfOps(k - 1), o \in OperatorTokens, a \in Operands}

Chains == UNION {ChainsOfOps(k) : k \in 0..MaxOps}

\* the leaves and the unary kinds the trees are built from
Leaves == {Number(IntNum(0)), Number(IntNum(1)), Number(IntNum(2)),
           Number(IntNum(3)), Number(FloatNum(2)),
           Variable(<<"x">>), Variable(<<"E">>)}
UnaryKinds == {"Negate", "Ln", "Sine", "Abs"}

\* whether r is a Number of a value outside the exact arithmetic
IsOpaqueNumber(r) == (~IsErr(r)) /\ IsNumber(r) /\ IsOpaque(r.value)

\* whether simplifying t, once and twice, stays within the exact arithmetic
StaysExact(t) ==
    (~IsOpaqueNumber(simplify(t))) /\ ~IsOpaqueNumber(Simp(simplify(t)))

\* the trees of exactly k nodes, each subtree of which stays exact
RECURSIVE TreesOfSize(_)
TreesOfSize(k) ==
    IF k = 1 THEN Leaves
    ELSE {t \in {New(u, <<c>>) : u \in UnaryKinds, c \in TreesOfSize(k - 1)}
               \cup UNION {{New(b, <<l, r>>) : b \in binary_operators,
                                               l \in TreesOfSize(i),
                                               r \in TreesOfSize(k - 1 - i)}
                           : i \in 1..(k - 2)}
            : StaysExact(t)}

\* the trees of at most n nodes
Trees(n) == UNION {TreesOfSize(k) : k \in 1..n}

DiffVars == {<<"x">>, <<"E">>}

(***************************************************************************)
(* The operations, as the prompt loops and a caller of the AST apply them. *)
(***************************************************************************)
IsTree(r) == (~IsErr(r)) /\ ~IsNone(r)

\* the tree the next operation of the debug prompt acts on
Subject ==
    CASE pc = "derived" -> derived
      [] pc = "simplified" -> simplified
      [] OTHER -> tree

\* parsed = parse(tokenized); the prompt's tree is the parse
Parse ==
    /\ pc = "tokenized"
    /\ LET r == parse(tokens)
       IN  /\ tokens' = r.tokens
           /\ parsed' = r.result
           /\ tree' = IF IsNone(tree) THEN r.result ELSE tree
    /\ pc' = IF IsNone(tree) THEN "parsed" ELSE "roundtrip"
    /\ UNCHANGED <<original, reparsed, text, simplified, resimplified, wrt,
                   derived, value>>

\* parse called once more on the list the first call left
Reparse ==
    /\ pc = "parsed"
    /\ IsTree(parsed)
    /\ LET r == parse(tokens)
       IN  /\ tokens' = r.tokens
           /\ reparsed' = r.result
    /\ pc' = "reparsed"
    /\ UNCHANGED <<original, parsed, tree, text, simplified, resimplified, wrt,
                   derived, value>>

\* evaluated = parsed.evaluate()
Evaluate ==
    /\ pc \in {"parsed", "ready"}
    /\ IsTree(tree)
    /\ value' = evaluate(tree, <<>>)
    /\ pc' = "evaluated"
    /\ UNCHANGED <<tokens, original, parsed, reparsed, tree, text, simplified,
                   resimplified, wrt, derived>>

\* derivative = parsed.derivative(wrt)
Derive ==
    /\ pc \in {"parsed", "ready"}
    /\ IsTree(tree)
    /\ \E v \in DiffVars :
         /\ wrt' = v
         /\ derived' = derivative(tree, v)
    /\ pc' = "derived"
    /\ UNCHANGED <<tokens, original, parsed, reparsed, tree, text, simplified,
                   resimplified, value>>

\* simplified = parsed.simplify(), or the derivative's
Simplify ==
    /\ pc \in {"parsed", "ready", "derived"}
    /\ IsTree(Subject)
    /\ simplified' = simplify(Subject)
    /\ pc' = "simplified"
    /\ UNCHANGED <<tokens, original, parsed, reparsed, tree, text, resimplified,
                   wrt, derived, value>>

\* simplify applied to what simplify returned
Resimplify ==
    /\ pc = "simplified"
    /\ IsTree(simplified)
    /\ resimplified' = simplify(simplified)
    /\ pc' = "resimplified"
    /\ UNCHANGED <<tokens, original, parsed, reparsed, tree, text, simplified,
                   wrt, derived, value>>

\* stringified = str(parsed), or of the derivative or the simplified tree
Stringify ==
    /\ pc \in {"parsed", "ready", "derived", "simplified"}
    /\ IsTree(Subject)
    /\ text' = Str(Subject)
    /\ pc' = IF pc = "ready" THEN "printed" ELSE "shown"
    /\ UNCHANGED <<tokens, original, parsed, reparsed, tree, simplified,
                   resimplified, wrt, derived, value>>

\* tokenized = tokenize(string)
Tokenize ==
    /\ pc = "printed"
    /\ tokens' = tokenize(text)
    /\ original' = tokenize(text)
    /\ pc' = "tokenized"
    /\ UNCHANGED <<parsed, reparsed, tree, text, simplified, resimplified, wrt,
                   derived, value>>

Blank ==
    /\ parsed = None /\ reparsed = None /\ text = <<>> /\ simplified = None
    /\ resimplified = None /\ wrt = <<>> /\ derived = None /\ value = None

\* a prompt with a tokenized line of any tokens
Init ==
    /\ \E k \in 0..MaxTokens : original \in [1..k -> Alphabet]
    /\ tokens = original /\ tree = None /\ pc = "tokenized" /\ Blank

\* a prompt with operands separated by binary operators
InitChain ==
    /\ original \in Chains
    /\ tokens = original /\ tree = None /\ pc = "tokenized" /\ Blank

\* a prompt with operands, parentheses and function names side by side
InitJuxt ==
    /\ \E k \in 0..MaxJuxt : original \in [1..k -> JuxtAlphabet]
    /\ tokens = original /\ tree = None /\ pc = "tokenized" /\ Blank

\* a caller holding a tree
InitTree ==
    /\ tree \in Trees(MaxNodes)
    /\ tokens = <<>> /\ original = <<>> /\ pc = "ready" /\ Blank

Next ==
    \/ Parse \/ Reparse \/ Evaluate \/ Derive \/ Simplify \/ Resimplify \/ Stringify

NextTree ==
    \/ Derive \/ Simplify \/ Resimplify \/ Stringify \/ Tokenize \/ Parse

Spec == Init /\ [][Next]_vars
SpecChain == InitChain /\ [][Next]_vars
SpecJuxt == InitJuxt /\ [][Next]_vars
SpecTree == InitTree /\ [][NextTree]_vars

(***************************************************************************)
(* Properties of parse.                                                    *)
(***************************************************************************)
IsNumberToken(t) == t[1] \in DigitSet
IsNameToken(t) == t[1] \in Letters
IsVariableToken(t) ==
    IsNameToken(t) /\ t \notin {Symbol(c) : c \in unary_functions}
IsOperand(t) == IsNumberToken(t) \/ IsVariableToken(t)

\* the leaf an operand token stands for, and the class of an operator token
LeafOf(t) == parse_primitive(t, FALSE)
ClassOf(t) == CHOOSE c \in binary_operators : Symbol(c) = t

MissingFirst == AssertionError("Binary operator missing first argument")

\* the four named parse errors
ParseErrors ==
    {AssertionError("Mismatched parentheses"),
     AssertionError("Mismatched parentheses in unary function call"),
     AssertionError("Unary function calls require parentheses"),
     MissingFirst,
     SyntaxError}

RECURSIVE WithinArity(_)
WithinArity(t) ==
    \/ IsLeaf(t)
    \/ /\ Len(t.children) >= min_args(t.name)
       /\ Len(t.children) <= max_args(t.name)
       /\ \A i \in 1..Len(t.children) : WithinArity(t.children[i])

\* C3: whatever the tokens, one at least, parse returns a tree whose nodes
\* all have a child count within their kind's bounds, or fails with one of
\* the four named parse errors; it has no other failure and no other result.
C3_TreeOrNamedError ==
    (pc = "parsed" /\ original # <<>>) =>
        \/ IsTree(parsed) /\ WithinArity(parsed)
        \/ parsed \in ParseErrors

\* C3: the tokens 2 + were parsed, and parse raised IndexError
C3_TrailingOperator ==
    /\ pc = "parsed"
    /\ original = << <<"2">>, <<"+">> >>
    /\ parsed = IndexError

\* C5: the tokens a op - b, for operands a and b and a binary operator op,
\* parse to op([a, Negate([b])]).
C5_MinusAfterOperatorNegates ==
    (/\ pc = "parsed"
     /\ Len(original) = 4
     /\ IsOperand(original[1])
     /\ original[2] \in OperatorTokens
     /\ original[3] = <<"-">>
     /\ IsOperand(original[4]))
    => parsed = New(ClassOf(original[2]),
                    <<LeafOf(original[1]),
                      New("Negate", <<LeafOf(original[4])>>)>>)

\* C5: the tokens 2 * - x were parsed to Multiply([2, Subtract([2, x])])
C5_MinusAfterOperatorSubtracts ==
    /\ pc = "parsed"
    /\ original = << <<"2">>, <<"*">>, <<"-">>, <<"x">> >>
    /\ parsed = New("Multiply",
                    <<Number(IntNum(2)),
                      New("Subtract", <<Number(IntNum(2)), Variable(<<"x">>)>>)>>)

LeftlessOperators == {<<"+">>, <<"*">>, <<"/">>, <<"^">>}

\* C6: when one of + * / ^ is the first token, the token after an opening
\* "(", or the token after the operator of a op _ b, parse fails with the
\* error of a binary operator missing its first argument.
C6_OperatorWithoutLeftOperandFails ==
    pc = "parsed" =>
        /\ (Len(original) >= 1 /\ original[1] \in LeftlessOperators)
               => parsed = MissingFirst
        /\ (/\ Len(original) >= 2
            /\ original[1] = <<"(">>
            /\ original[2] \in LeftlessOperators)
               => parsed = MissingFirst
        /\ (/\ Len(original) = 4
            /\ IsOperand(original[1])
            /\ original[2] \in OperatorTokens
            /\ original[3] \in LeftlessOperators
            /\ IsOperand(original[4]))
               => parsed = MissingFirst

\* C6: the tokens 2 + * x were parsed to Add([2, Multiply([2, x])])
C6_OperatorAfterOperatorParses ==
    /\ pc = "parsed"
    /\ original = << <<"2">>, <<"+">>, <<"*">>, <<"x">> >>
    /\ parsed = New("Add",
                    <<Number(IntNum(2)),
                      New("Multiply", <<Number(IntNum(2)), Variable(<<"x">>)>>)>>)

\* the level of an operator token in the operator table
Level(t) ==
    CASE t \in {<<"+">>, <<"-">>} -> 1
      [] t \in {<<"*">>, <<"/">>} -> 2
      [] t = <<"^">> -> 3

\* the tree of operand (operator operand)*: split at the loosest operator,
\* the last one of + - * / and the first one of ^
RECURSIVE Grouped(_)
Grouped(chain) ==
    IF Len(chain) = 1 THEN LeafOf(chain[1])
    ELSE LET ops == {i \in 1..Len(chain) : i % 2 = 0}
             loosest == {i \in ops : \A j \in ops : Level(chain[i]) <= Level(chain[j])}
             k == IF \A i \in loosest : chain[i] = <<"^">>
                  THEN CHOOSE i \in loosest : \A j \in loosest : i <= j
                  ELSE CHOOSE i \in loosest : \A j \in loosest : i >= j
         IN  New(ClassOf(chain[k]),
                 <<Grouped(SubSeq(chain, 1, k - 1)),
                   Grouped(SubSeq(chain, k + 1, Len(chain)))>>)

\* C4: a chain of operands separated by binary operators parses to the
\* grouping of the operator table: tighter operators first, + - * / to the
\* left, ^ to the right; 2+3*4 evaluates to 14 and 2^3^2 to 512.
C4_GroupsByOperatorTable ==
    /\ pc # "tokenized" => parsed = Grouped(original)
    /\ (/\ pc = "evaluated"
        /\ original = << <<"2">>, <<"+">>, <<"3">>, <<"*">>, <<"4">> >>)
            => value = IntNum(14)
    /\ (/\ pc = "evaluated"
        /\ original = << <<"2">>, <<"^">>, <<"3">>, <<"^">>, <<"2">> >>)
            => value = IntNum(512)

\* C4: 2^3^2 was parsed to Power([2, Power([3, 2])]) and evaluated to 512
C4_PowerChainEvaluated ==
    /\ pc = "evaluated"
    /\ original = << <<"2">>, <<"^">>, <<"3">>, <<"^">>, <<"2">> >>
    /\ parsed = New("Power",
                    <<Number(IntNum(2)),
                      New("Power", <<Number(IntNum(3)), Number(IntNum(2))>>)>>)
    /\ value = IntNum(512)

\* whether "*" belongs between the adjacent tokens a and b
StarBetween(a, b) ==
    /\ IsNumberToken(a) \/ IsVariableToken(a) \/ a = <<")">>
    /\ IsNumberToken(b) \/ IsNameToken(b) \/ b = <<"(">>

RECURSIVE WithStars(_)
WithStars(toks) ==
    IF Len(toks) <= 1 THEN toks
    ELSE <<toks[1]>>
         \o (IF StarBetween(toks[1], toks[2]) THEN << <<"*">> >> ELSE <<>>)
         \o WithStars(Tail(toks))

\* C10: when parse returned a tree, the caller's list is the original one
\* with "*" inserted exactly between each adjacent a, b where a is a number,
\* a variable name or ")" and b is a number, a name or "("; parsing that
\* list again leaves it the same and returns an equal tree.
C10_OnlyStarsInserted ==
    /\ IsTree(parsed) => tokens = WithStars(original)
    /\ pc = "reparsed" => IsTree(reparsed) /\ NodeEq(reparsed, parsed)

\* C10: ( 2 ) ( x ) was parsed twice, the list being ( 2 ) * ( x )
C10_ParenthesesSideBySide ==
    /\ pc = "reparsed"
    /\ original = << <<"(">>, <<"2">>, <<")">>, <<"(">>, <<"x">>, <<")">> >>
    /\ tokens = << <<"(">>, <<"2">>, <<")">>, <<"*">>, <<"(">>, <<"x">>, <<")">> >>
    /\ parsed = New("Multiply", <<Number(IntNum(2)), Variable(<<"x">>)>>)
    /\ reparsed = parsed

(***************************************************************************)
(* Properties of simplify, derivative and str.                             *)
(***************************************************************************)
\* C1: simplify applied to what simplify returned returns an equal tree.
C1_SimplifyIdempotent ==
    pc = "resimplified" =>
        IsTree(resimplified) /\ NodeEq(resimplified, simplified)

\* C1: Subtract([0, Negate([x])]) was simplified to Negate([Negate([x])])
\* and that, simplified again, to x
C1_NegateLeftUnsimplified ==
    /\ pc = "resimplified"
    /\ tree = New("Subtract",
                  <<NUMBER_0, New("Negate", <<Variable(<<"x">>)>>)>>)
    /\ IsNone(derived)
    /\ simplified = New("Negate", <<New("Negate", <<Variable(<<"x">>)>>)>>)
    /\ resimplified = Variable(<<"x">>)

\* C2: parse(tokenize(str(t))) is a tree equal to t.
C2_PrintParseRoundTrip ==
    pc = "roundtrip" => IsTree(parsed) /\ NodeEq(parsed, tree)

\* C2: Add([x, Subtract([1, 2])]) was printed as "x + 1 - 2" and parsed back
\* as Subtract([Add([x, 1]), 2])
C2_RightChildRegrouped ==
    /\ pc = "roundtrip"
    /\ tree = New("Add", <<Variable(<<"x">>),
                           New("Subtract", <<NUMBER_1, NUMBER_2>>)>>)
    /\ text = <<"x", " ", "+", " ", "1", " ", "-", " ", "2">>
    /\ parsed = New("Subtract", <<New("Add", <<Variable(<<"x">>), NUMBER_1>>),
                                  NUMBER_2>>)

\* C7: the derivative of Add([f, g]) is the simplified Add of the
\* derivatives of f and g, and the derivative of Subtract([f, g]) the
\* simplified Subtract of them.
C7_DerivativeDistributes ==
    (pc = "derived" /\ tree.name \in {"Add", "Subtract"}) =>
        derived = Simp(Mk(tree.name, <<derivative(tree.children[1], wrt),
                                       derivative(tree.children[2], wrt)>>))

\* C7: Subtract([x, 2]) was differentiated with respect to x, giving 2
C7_SubtractCrossMultiplied ==
    /\ pc = "derived"
    /\ tree = New("Subtract", <<Variable(<<"x">>), NUMBER_2>>)
    /\ wrt = <<"x">>
    /\ derived = NUMBER_2

\* C9: a node whose simplified children are all Numbers, and which has a
\* value, is simplified to the Number of that value.
C9_NumbersFold ==
    (/\ pc = "simplified"
     /\ IsNone(derived)
     /\ ~IsLeaf(tree)
     /\ IsTree(Node_simplify(tree))
     /\ \A i \in 1..Len(tree.children) : IsNumber(Node_simplify(tree).children[i])
     /\ ~IsErr(evaluate(Node_simplify(tree), <<>>)))
    => simplified = Number(evaluate(Node_simplify(tree), <<>>))

\* C9: Add([2, 3]) was simplified, and is Add([2, 3]) still
C9_IntegersNotFolded ==
    /\ pc = "simplified"
    /\ IsNone(derived)
    /\ tree = New("Add", <<NUMBER_2, Number(IntNum(3))>>)
    /\ simplified = tree

XSquared == << <<"x">>, <<"^">>, <<"2">> >>

\* C8: x^2, parsed, differentiated with respect to x and simplified, is
\* Multiply([Power([x, 2]), Divide([2, x])]), which prints as "x^2*2/x".
C8_PowerRuleOfXSquared ==
    (original = XSquared /\ wrt = <<"x">> /\ ~IsNone(simplified)) =>
        /\ simplified = New("Multiply",
              <<New("Power", <<Variable(<<"x">>), NUMBER_2>>),
                New("Divide", <<NUMBER_2, Variable(<<"x">>)>>)>>)
        /\ pc = "shown" => text = <<"x", "^", "2", "*", "2", "/", "x">>

\* C8: x^2 was parsed, differentiated, simplified and printed as "x^2*2/x"
C8_XSquaredShown ==
    /\ pc = "shown"
    /\ original = XSquared
    /\ wrt = <<"x">>
    /\ ~IsNone(simplified)
    /\ text = <<"x", "^", "2", "*", "2", "/", "x">>

\* C8, as the specification states it: x^2, parsed, differentiated with
\* respect to x and simplified, is Multiply([2, x]), which prints as "2*x".
C8_XSquaredGivesTwoX ==
    (original = XSquared /\ wrt = <<"x">> /\ ~IsNone(simplified)) =>
        /\ simplified = New("Multiply", <<NUMBER_2, Variable(<<"x">>)>>)
        /\ pc = "shown" => text = <<"2", "*", "x">>

====
